---- MODULE Spec2Model ----
(***************************************************************************)
(* MoneyFlow: the ledger operations of the React client and of             *)
(* src/lib/supabase.ts, over the three tables declared in                  *)
(* initializeDatabase (accounts, categories, transactions).                *)
(*                                                                         *)
(* The store is reached through the client made by createClient            *)
(* (supabase.ts:15).  Every awaited builder call (.insert, .update,        *)
(* .delete, .select) is one request; the store applies a request           *)
(* atomically and durably when it answers without error.  The calls        *)
(* supabase.query('BEGIN' / 'COMMIT' / 'ROLLBACK') are requests of their   *)
(* own: they answer with or without an error (a call that cannot be made   *)
(* at all is one of the error answers), and they neither group nor undo    *)
(* the row requests issued around them, which have already been applied.   *)
(* Amounts and balances are integers (DECIMAL(12,2) in minor units).       *)
(***************************************************************************)
EXTENDS Integers, FiniteSets, Sequences, TLC

\* ------------------------------------------------------------------ bounds
MaxOps == 3           \* operations (handlers run, library calls made) in a run

Procs == {"p1", "p2"}           \* concurrent callers of the library functions
CurrentUser == "u1"             \* user.id of the signed-in session
AccountIds == {"a1", "a2"}
NoAccount == "none"             \* account_id NULL / absent
CategoryIds == {"c1", "c2"}
NoCategory == ""                \* the form's unselected option value ''
\* (type, amount) pairs entered for a new transaction and for an edit
CreateInputs == {[type |-> "expense", amount |-> 200], [type |-> "income", amount |-> 50]}
UpdateInputs == {[type |-> "expense", amount |-> 50], [type |-> "income", amount |-> 200]}
CreateAccounts == {"a1", NoAccount}

VARIABLES
    accounts,       \* table accounts:     id -> [user_id, balance]
    categories,     \* table categories:   id -> [user_id, type]
    transactions,   \* table transactions: id -> row
    nextId,         \* next id the store generates (uuid_generate_v4: never reused)
    view,           \* Transactions page state `transactions` (last fetched rows)
    form,           \* AccountForm: open or not, its `account` prop, its `balance` state
    pr,             \* per caller: the invocation of createTransaction / deleteTransaction
    started,        \* operations started so far in the run
    initial,        \* history: each account's initial (re-based) balance
    quiet,          \* history: the tables when the current busy period began
    nops,           \* history: library invocations begun in the busy period (capped)
    dirty,          \* history: a page handler wrote during the busy period
    ui,             \* history: the page handler that ran as the last step
    optout          \* history: createTransaction was called with updateBalance false

vars == <<accounts, categories, transactions, nextId, view, form, pr, started,
          initial, quiet, nops, dirty, ui, optout>>

\* ------------------------------------------------------------- data helpers
Row(id, t, m, c, a) ==
    [id |-> id, user_id |-> CurrentUser, type |-> t, amount |-> m,
     category_id |-> c, account_id |-> a]

NoRow == Row(0, "expense", 0, NoCategory, NoAccount)

Without(f, D) == [k \in (DOMAIN f) \ D |-> f[k]]

\* The signed-in user's rows of a table: the rows a request can see or change
\* under the row-level policies of initializeDatabase (auth.uid() = user_id),
\* and the rows .eq('user_id', user.id) selects.
Mine(table) == {i \in DOMAIN table : table[i].user_id = CurrentUser}

\* select('*').eq('user_id', user.id)
Fetched(table) == [i \in Mine(table) |-> table[i]]

Snap == [tx |-> transactions, acc |-> accounts, cat |-> categories]
NoSnap == [tx |-> <<>>, acc |-> <<>>, cat |-> <<>>]

\* createTransaction: balanceChange = type === 'income' ? amount : -amount
createBalanceChange_negated(type, amount) ==
    IF type = "income" THEN -amount ELSE amount

createBalanceChange(type, amount) ==
    IF type = "income" THEN amount ELSE -amount

\* A delete that moves the balance the way the create did.
deleteBalanceChange_sameSign(type, amount) ==
    IF type = "income" THEN amount ELSE -amount

\* deleteTransaction: balanceChange = type === 'income' ? -amount : amount
deleteBalanceChange(type, amount) ==
    IF type = "income" THEN -amount ELSE amount

\* Effect of a stored row on its account (spec glossary), for the claims.
Effect(row) == IF row.type = "income" THEN row.amount ELSE -row.amount

RECURSIVE SumEffects(_, _)
SumEffects(tx, ids) ==
    IF ids = {} THEN 0
    ELSE LET i == CHOOSE j \in ids : TRUE
         IN  Effect(tx[i]) + SumEffects(tx, ids \ {i})

RefsAccount(tx, a) == {i \in DOMAIN tx : tx[i].account_id = a}
RefsCategory(tx, c) == {i \in DOMAIN tx : tx[i].category_id = c}

\* Foreign keys of table transactions (category_id, account_id REFERENCES ...).
InsertAccepted(row) ==
    /\ row.category_id \in DOMAIN categories
    /\ row.account_id = NoAccount \/ row.account_id \in DOMAIN accounts

\* ------------------------------------------------------------------- Init
\* The ledger of the spec's scenario 3: three expenses of one category on "a1".
Scenario3Transactions ==
    (1 :> Row(1, "expense", 100, "c1", "a1")) @@
    (2 :> Row(2, "expense", 200, "c1", "a1")) @@
    (3 :> Row(3, "expense", 300, "c1", "a1"))

IdlePr == [pc |-> "idle", op |-> "none", tx |-> NoRow, upd |-> FALSE,
           cur |-> 0, ok |-> FALSE]

NoUi == [op |-> "none"]

\* No AccountForm is shown (showAccountForm false).
NoForm == [open |-> FALSE, id |-> NoAccount, balance |-> 0]

InitWith(seed) ==
    /\ accounts = [a \in AccountIds |->
                     [user_id |-> CurrentUser,
                      balance |-> IF a = "a1" THEN 1000 ELSE 500]]
    /\ categories = ("c1" :> [user_id |-> CurrentUser, type |-> "expense"]) @@
                    ("c2" :> [user_id |-> CurrentUser, type |-> "income"])
    /\ transactions = seed
    /\ nextId = Cardinality(DOMAIN seed) + 1
    /\ view = Fetched(transactions)
    /\ form = NoForm
    /\ pr = [p \in Procs |-> IdlePr]
    /\ started = 0
    /\ initial = [a \in AccountIds |->
                    accounts[a].balance - SumEffects(transactions, RefsAccount(transactions, a))]
    /\ quiet = NoSnap
    /\ nops = 0
    /\ dirty = FALSE
    /\ ui = NoUi
    /\ optout = FALSE

\* A new user's ledger: two accounts, two categories, no transactions.
Init == InitWith(<<>>)

\* The ledger scenario 3 starts from.
InitScenario3 == InitWith(Scenario3Transactions)

\* --------------------------------------------------------- history helpers
AllIdle == \A p \in Procs : pr[p].pc = "idle"
Busy == ~AllIdle

\* A library invocation begins.
BeginPeriod ==
    /\ IF AllIdle
       THEN quiet' = Snap /\ nops' = 1 /\ dirty' = FALSE
       ELSE quiet' = quiet /\ nops' = (IF nops < 3 THEN nops + 1 ELSE 3) /\ dirty' = dirty
    /\ UNCHANGED form

\* A library invocation takes a step in the middle.
InPeriod == UNCHANGED <<quiet, nops, dirty, optout, form>> /\ ui' = NoUi

\* A page handler ran.
PageStep == UNCHANGED <<quiet, nops, optout, form>> /\ dirty' = (dirty \/ Busy)

\* A library invocation returned control to its caller.
EndPeriod(p) ==
    /\ IF \A q \in Procs \ {p} : pr[q].pc = "idle"
       THEN quiet' = NoSnap /\ nops' = 0 /\ dirty' = FALSE
       ELSE UNCHANGED <<quiet, nops, dirty>>
    /\ UNCHANGED form

CategoryOf(t) == IF t = "expense" THEN "c1" ELSE "c2"

\* One more operation may start.
StartOp == started < MaxOps /\ started' = started + 1

\* ------------------------------------------- src/lib/supabase.ts, stepwise
\* getAccountBalance: .select('balance').eq('id', accountId).single();
\* an error answer, or no such row among the rows the caller may see, throws;
\* otherwise data?.balance || 0.
getAccountBalance(p, ok) ==
    /\ pr[p].pc = "read"
    /\ IF ok /\ pr[p].tx.account_id \in Mine(accounts)
       THEN pr' = [pr EXCEPT ![p].cur = accounts[pr[p].tx.account_id].balance,
                             ![p].pc = "write"]
       ELSE pr' = [pr EXCEPT ![p].pc = "rollback"]
    /\ UNCHANGED <<accounts, categories, transactions, nextId, view, started, initial>>
    /\ InPeriod

\* currentBalance + balanceChange, as each caller computes it.
NewBalance(p) ==
    pr[p].cur + (IF pr[p].op = "create"
                 THEN createBalanceChange(pr[p].tx.type, pr[p].tx.amount)
                 ELSE deleteBalanceChange(pr[p].tx.type, pr[p].tx.amount))

\* updateAccountBalance: .update({balance: newBalance}).eq('id', accountId);
\* an update that matches no row answers without error.
updateAccountBalance(p, ok) ==
    /\ pr[p].pc = "write"
    /\ IF ok
       THEN /\ accounts' = IF pr[p].tx.account_id \in Mine(accounts)
                           THEN [accounts EXCEPT ![pr[p].tx.account_id].balance = NewBalance(p)]
                           ELSE accounts
            /\ pr' = [pr EXCEPT ![p].pc = "commit"]
       ELSE /\ accounts' = accounts
            /\ pr' = [pr EXCEPT ![p].pc = "rollback"]
    /\ UNCHANGED <<categories, transactions, nextId, view, started, initial>>
    /\ InPeriod

\* createTransaction, lines 213-216: query('BEGIN'); an error is thrown to the
\* outer catch, which rethrows (no ROLLBACK).
createTransaction_Begin(p, t, m, a, upd, ok) ==
    /\ pr[p].pc = "idle"
    /\ StartOp
    /\ pr' = [pr EXCEPT ![p] =
                [pc |-> IF ok THEN "insert" ELSE "done", op |-> "create",
                 tx |-> Row(0, t, m, CategoryOf(t), a), upd |-> upd,
                 cur |-> 0, ok |-> FALSE]]
    /\ optout' = (optout \/ ~upd)
    /\ BeginPeriod
    /\ ui' = NoUi
    /\ UNCHANGED <<accounts, categories, transactions, nextId, view, initial>>

\* createTransaction, lines 219-227: .from('transactions').insert([transaction]),
\* then the branch on updateBalance && transaction.account_id.
createTransaction_Insert(p, ok) ==
    /\ pr[p].pc = "insert"
    /\ pr[p].op = "create"
    /\ IF ok /\ InsertAccepted(pr[p].tx)
       THEN /\ transactions' = (nextId :> [pr[p].tx EXCEPT !.id = nextId]) @@ transactions
            /\ nextId' = nextId + 1
            /\ pr' = [pr EXCEPT ![p].tx.id = nextId,
                                ![p].pc = IF pr[p].upd /\ pr[p].tx.account_id # NoAccount
                                          THEN "read" ELSE "commit"]
       ELSE /\ UNCHANGED <<transactions, nextId>>
            /\ pr' = [pr EXCEPT ![p].pc = "rollback"]
    /\ UNCHANGED <<accounts, categories, view, started, initial>>
    /\ InPeriod

\* deleteTransaction, lines 260-263: query('BEGIN').  The caller passes the id,
\* account_id, amount and type of a row it holds (a row of the fetched list).
deleteTransaction_Call(p, row, ok) ==
    /\ pr[p].pc = "idle"
    /\ StartOp
    /\ pr' = [pr EXCEPT ![p] =
                [pc |-> IF ok THEN "delete" ELSE "done", op |-> "delete",
                 tx |-> row, upd |-> TRUE, cur |-> 0, ok |-> FALSE]]
    /\ BeginPeriod
    /\ ui' = NoUi
    /\ UNCHANGED <<optout, accounts, categories, transactions, nextId, view, initial>>

\* deleteTransaction called for a row of the fetched list.
deleteTransaction_Begin(p, id, ok) ==
    /\ id \in DOMAIN view
    /\ deleteTransaction_Call(p, view[id], ok)

\* deleteTransaction, lines 266-275: .delete().eq('id', transactionId) (a delete
\* that matches no row answers without error), then the branch on accountId.
deleteTransaction_Delete(p, ok) ==
    /\ pr[p].pc = "delete"
    /\ IF ok
       THEN /\ transactions' = Without(transactions, {pr[p].tx.id} \cap Mine(transactions))
            /\ pr' = [pr EXCEPT ![p].pc = IF pr[p].tx.account_id # NoAccount
                                          THEN "read" ELSE "commit"]
       ELSE /\ UNCHANGED transactions
            /\ pr' = [pr EXCEPT ![p].pc = "rollback"]
    /\ UNCHANGED <<accounts, categories, nextId, view, started, initial>>
    /\ InPeriod

\* A COMMIT whose error is thrown past the inner catch.
Commit_withoutRollback(p, ok) ==
    /\ pr[p].pc = "commit"
    /\ pr' = [pr EXCEPT ![p].pc = "done", ![p].ok = ok]
    /\ UNCHANGED <<accounts, categories, transactions, nextId, view, started, initial>>
    /\ InPeriod

\* query('COMMIT') (lines 240-241, 286-287): an error goes to the inner catch.
Commit(p, ok) ==
    /\ pr[p].pc = "commit"
    /\ pr' = [pr EXCEPT ![p].pc = IF ok THEN "done" ELSE "rollback",
                        ![p].ok = ok]
    /\ UNCHANGED <<accounts, categories, transactions, nextId, view, started, initial>>
    /\ InPeriod

\* A catch that starts the body again instead of rethrowing.
Rollback_retries(p) ==
    /\ pr[p].pc = "rollback"
    /\ pr' = [pr EXCEPT ![p].pc = IF pr[p].op = "create" THEN "insert" ELSE "delete"]
    /\ UNCHANGED <<accounts, categories, transactions, nextId, view, started, initial>>
    /\ InPeriod

\* The inner catch (lines 243-247, 289-293): query('ROLLBACK'), then rethrow.
Rollback(p) ==
    /\ pr[p].pc = "rollback"
    /\ pr' = [pr EXCEPT ![p].pc = "done", ![p].ok = FALSE]
    /\ UNCHANGED <<accounts, categories, transactions, nextId, view, started, initial>>
    /\ InPeriod

\* The promise settles and the caller goes on.
Return(p) ==
    /\ pr[p].pc = "done"
    /\ pr' = [pr EXCEPT ![p] = IdlePr]
    /\ EndPeriod(p)
    /\ ui' = NoUi
    /\ UNCHANGED <<optout, accounts, categories, transactions, nextId, view, started, initial>>

\* ------------------------------ src/components/transactions/Transactions.tsx
\* Transactions.fetchTransactions (lines 33-48): the page's list is replaced by
\* the rows the store returns.
fetchTransactions ==
    /\ view' = Fetched(transactions)
    /\ ui' = NoUi
    /\ UNCHANGED <<accounts, categories, transactions, nextId, pr, started, initial,
                   quiet, nops, dirty, optout, form>>

\* TransactionForm.handleSubmit without a `transaction` prop (lines 401-441):
\* transactionData carries user_id, amount, type, description, date and
\* category_id, and no account_id; one insert; onSuccess is fetchTransactions;
\* an error sets the form's error message (msg).
TransactionForm_handleSubmit_create(t, m, c, ok) ==
    /\ StartOp
    /\ LET row == Row(nextId, t, m, c, NoAccount)
           done == ok /\ InsertAccepted(row)
       IN  /\ transactions' = IF done THEN (nextId :> row) @@ transactions
                              ELSE transactions
           /\ nextId' = IF done THEN nextId + 1 ELSE nextId
           /\ view' = IF done THEN Fetched(transactions') ELSE view
           /\ ui' = [op |-> "formCreate", ok |-> done, id |-> nextId, pre |-> Snap,
                     msg |-> IF done THEN "none" ELSE "error"]
    /\ PageStep
    /\ UNCHANGED <<accounts, categories, pr, initial>>

\* The columns .update(transactionData) assigns: account_id is not among them.
UpdatedRow(old, t, m, c) ==
    [old EXCEPT !.user_id = CurrentUser, !.type = t, !.amount = m, !.category_id = c]

\* TransactionForm.handleSubmit with a `transaction` prop (the row handleEdit
\* took from the list): .update(transactionData).eq('id', transaction.id).
\* An update that matches no row answers without error.
TransactionForm_handleSubmit_update(id, t, m, c, ok) ==
    /\ id \in DOMAIN view
    /\ StartOp
    /\ LET done == ok /\ (id \in DOMAIN transactions => c \in DOMAIN categories)
       IN  /\ transactions' = IF done /\ id \in Mine(transactions)
                              THEN [transactions EXCEPT ![id] = UpdatedRow(@, t, m, c)]
                              ELSE transactions
           /\ view' = IF done THEN Fetched(transactions') ELSE view
           /\ ui' = [op |-> "formUpdate", ok |-> done, id |-> id, pre |-> Snap,
                     msg |-> IF done THEN "none" ELSE "error"]
    /\ PageStep
    /\ UNCHANGED <<accounts, categories, nextId, pr, initial>>

\* Transactions.handleDelete (lines 67-82), confirmed by the user:
\* .delete().eq('id', id).eq('user_id', user.id), then fetchTransactions; an
\* error is logged and nothing else happens (no message is shown: msg).
Transactions_handleDelete(id, ok) ==
    /\ id \in DOMAIN view
    /\ StartOp
    /\ transactions' = IF ok THEN Without(transactions, {id} \cap Mine(transactions))
                       ELSE transactions
    /\ view' = IF ok THEN Fetched(transactions') ELSE view
    /\ ui' = [op |-> "pageDelete", ok |-> ok, id |-> id, pre |-> Snap, msg |-> "none"]
    /\ PageStep
    /\ UNCHANGED <<accounts, categories, nextId, pr, initial>>

\* CategoryForm.handleDelete (lines 620-663), confirmed by the user: delete the
\* user's transactions of the category, then the category row; the first error
\* goes to the catch, which sets the error message.  fail names the request
\* that answers with an error.  The category row is referenced by
\* transactions.category_id, so its delete is refused while a row refers to it.
CategoryForm_handleDelete(c, fail) ==
    /\ c \in DOMAIN categories
    /\ StartOp
    /\ LET gone == {i \in RefsCategory(transactions, c) :
                        transactions[i].user_id = CurrentUser}
           left == Without(transactions, gone)
           refused == RefsCategory(left, c) # {}
       IN  /\ transactions' = IF fail = "transactions" THEN transactions ELSE left
           /\ categories' = IF fail = "none" /\ ~refused
                            THEN Without(categories, {c}) ELSE categories
           /\ ui' = [op |-> "categoryDelete", ok |-> (fail = "none" /\ ~refused),
                     id |-> c, pre |-> Snap, confirmed |-> TRUE, wrote |-> TRUE,
                     msg |-> IF fail = "none" /\ ~refused THEN "success" ELSE "error"]
    /\ PageStep
    /\ UNCHANGED <<accounts, nextId, view, pr, initial>>

\* ------------------------------------------------------------------- Next
\* Callers are interchangeable: the one that starts while no invocation is in
\* flight is called p1, one that starts beside it p2.
Starts(p) == p = "p2" => pr["p1"].pc # "idle"

\* The steps of the library functions, for the callers in P.
Library(P) ==
    \/ \E p \in P, d \in CreateInputs, a \in CreateAccounts,
          upd \in BOOLEAN, ok \in BOOLEAN :
            Starts(p) /\ createTransaction_Begin(p, d.type, d.amount, a, upd, ok)
    \/ \E p \in P, ok \in BOOLEAN : createTransaction_Insert(p, ok)
    \/ \E p \in P, id \in DOMAIN view, ok \in BOOLEAN :
            Starts(p) /\ deleteTransaction_Begin(p, id, ok)
    \/ \E p \in P, ok \in BOOLEAN : deleteTransaction_Delete(p, ok)
    \/ \E p \in P, ok \in BOOLEAN : getAccountBalance(p, ok)
    \/ \E p \in P, ok \in BOOLEAN : updateAccountBalance(p, ok)
    \/ \E p \in P, ok \in BOOLEAN : Commit(p, ok)
    \/ \E p \in P : Rollback(p)
    \/ \E p \in P : Return(p)

\* The handlers of the Transactions page and its forms.
Pages ==
    \/ \E d \in CreateInputs, ok \in BOOLEAN :
            TransactionForm_handleSubmit_create(d.type, d.amount, CategoryOf(d.type), ok)
    \/ \E id \in DOMAIN view, d \in UpdateInputs, ok \in BOOLEAN :
            TransactionForm_handleSubmit_update(id, d.type, d.amount, CategoryOf(d.type), ok)
    \/ \E id \in DOMAIN view, ok \in BOOLEAN : Transactions_handleDelete(id, ok)
    \/ \E c \in CategoryIds, fail \in {"none", "transactions", "category"} :
            CategoryForm_handleDelete(c, fail)

\* One session: the page's handlers and one caller of the library at a time.
Next == Library({"p1"}) \/ Pages \/ fetchTransactions

Spec == Init /\ [][Next]_vars

\* The same session, starting from the ledger of scenario 3.
SpecScenario3 == InitScenario3 /\ [][Next]_vars

\* Two callers of the library functions side by side (two tabs or devices of
\* the user), and the page's reload.
NextConcurrent == Library(Procs) \/ fetchTransactions

SpecConcurrent == Init /\ [][NextConcurrent]_vars

\* ------------------------------- src/components/Navbar.tsx (Accounts pages)
\* CategoryForm.handleDelete when the user answers the confirm() of line 623
\* with "cancel": the handler returns before any request.
CategoryForm_handleDelete_declined(c) ==
    /\ c \in DOMAIN categories
    /\ StartOp
    /\ ui' = [op |-> "categoryDelete", ok |-> FALSE, id |-> c, pre |-> Snap,
              confirmed |-> FALSE, wrote |-> FALSE, msg |-> "none"]
    /\ PageStep
    /\ UNCHANGED <<accounts, categories, transactions, nextId, view, pr, initial>>

\* Accounts.handleDeleteAccount (lines 547-565): confirm(), then one request,
\* .from('accounts').delete().eq('id', account.id).eq('user_id', user.id).
\* The row is referenced by transactions.account_id, so the delete is refused
\* while a transaction refers to it.  Success shows the success message; an
\* error is logged and nothing is shown.
Accounts_handleDeleteAccount(a, confirmed, ok) ==
    /\ a \in DOMAIN accounts
    /\ StartOp
    /\ LET refused == RefsAccount(transactions, a) # {}
           done == confirmed /\ ok /\ ~refused
       IN  /\ accounts' = IF done THEN Without(accounts, {a}) ELSE accounts
           /\ ui' = [op |-> "accountDelete", ok |-> done, id |-> a, pre |-> Snap,
                     confirmed |-> confirmed, wrote |-> confirmed,
                     msg |-> IF done THEN "success" ELSE "none"]
    /\ PageStep
    /\ UNCHANGED <<categories, transactions, nextId, view, pr, initial>>

\* AccountForm.handleDelete (lines 827-860), reached from the confirmation
\* dialog of lines 884-912: delete the user's transactions of the account, then
\* the account row; the first error goes to the catch, which sets the error
\* message.  fail names the request that answers with an error.
AccountForm_handleDelete(a, fail) ==
    /\ a \in DOMAIN accounts
    /\ StartOp
    /\ LET gone == {i \in RefsAccount(transactions, a) :
                        transactions[i].user_id = CurrentUser}
           left == Without(transactions, gone)
           refused == RefsAccount(left, a) # {}
           done == fail = "none" /\ ~refused
       IN  /\ transactions' = IF fail = "transactions" THEN transactions ELSE left
           /\ accounts' = IF done THEN Without(accounts, {a}) ELSE accounts
           /\ ui' = [op |-> "accountFormDelete", ok |-> done, id |-> a, pre |-> Snap,
                     confirmed |-> TRUE, wrote |-> TRUE,
                     msg |-> IF done THEN "none" ELSE "error"]
    /\ PageStep
    /\ UNCHANGED <<categories, nextId, view, pr, initial>>

\* The handlers that delete an account or a category.
Deletes ==
    \/ \E a \in AccountIds, confirmed \in BOOLEAN, ok \in BOOLEAN :
            Accounts_handleDeleteAccount(a, confirmed, ok)
    \/ \E a \in AccountIds, fail \in {"none", "transactions", "account"} :
            AccountForm_handleDelete(a, fail)
    \/ \E c \in CategoryIds, fail \in {"none", "transactions", "category"} :
            CategoryForm_handleDelete(c, fail)
    \/ \E c \in CategoryIds : CategoryForm_handleDelete_declined(c)

\* --------------------------- src/unnamed/part_000 (Settings: export, import)
\* One collection of a backup file: an array of row objects (kind "rows"), the
\* JSON value null ("null"), or a key that is not in the file ("missing").
Coll(kind, rows) == [kind |-> kind, rows |-> rows]

\* The test !importData.x of line 101: undefined and null are falsy, an array
\* (an empty one too) is truthy.
Truthy(c) == c.kind = "rows"

\* The same test without its middle operand.
ValidStructure_withoutCategories(file) ==
    Truthy(file.transactions) /\ Truthy(file.accounts)

\* Line 101: the file has all three collections.
ValidStructure(file) ==
    Truthy(file.transactions) /\ Truthy(file.categories) /\ Truthy(file.accounts)

\* select('*'): the rows of a table as objects that carry their id.
TransactionObjects(tx) == {tx[i] : i \in Mine(tx)}
CategoryObjects(cat) ==
    {[id |-> i, user_id |-> cat[i].user_id, type |-> cat[i].type] : i \in Mine(cat)}
AccountObjects(acc) ==
    {[id |-> i, user_id |-> acc[i].user_id, balance |-> acc[i].balance] : i \in Mine(acc)}

\* The rows sent as the file carries them.
Stamp_keepsOwner(rows) == rows

\* Lines 130-145: rows.map(row => ({...row, user_id: user.id})).
Stamp(rows) == {[r EXCEPT !.user_id = CurrentUser] : r \in rows}

Ids(rows) == {r.id : r \in rows}

\* Primary key: one insert request stores all of its rows or none; it is
\* refused when two of them, or one of them and a stored row, share an id.
KeysFree(rows, table) ==
    /\ Cardinality(Ids(rows)) = Cardinality(rows)
    /\ Ids(rows) \cap DOMAIN table = {}

\* The rows of an insert request as they are stored, keyed by id.
TransactionTable(rows) == [i \in Ids(rows) |-> CHOOSE r \in rows : r.id = i]
CategoryTable(rows) ==
    [i \in Ids(rows) |-> LET r == CHOOSE q \in rows : q.id = i
                         IN  [user_id |-> r.user_id, type |-> r.type]]
AccountTable(rows) ==
    [i \in Ids(rows) |-> LET r == CHOOSE q \in rows : q.id = i
                         IN  [user_id |-> r.user_id, balance |-> r.balance]]

\* A store that deletes rows whatever refers to them.
Unreferenced_unchecked(tx, col, ids) == TRUE

\* Foreign keys at a delete of the rows ids: the request is refused while a
\* stored transaction refers to one of them in its column col.
Unreferenced(tx, col, ids) == \A i \in DOMAIN tx : tx[i][col] \notin ids

\* A store that accepts a batch whatever its rows refer to.
BatchAccepted_unchecked(rows, cat, acc) == TRUE

\* Foreign keys of a batch of transaction rows against the tables it meets.
BatchAccepted(rows, cat, acc) ==
    \A r \in rows :
        /\ r.category_id \in DOMAIN cat
        /\ r.account_id = NoAccount \/ r.account_id \in DOMAIN acc

\* Settings.exportData (lines 36-89): three selects of the user's rows; the
\* answers' errors are not read, so a select that failed contributes null.
\* The file is JSON.stringify({transactions, categories, accounts, exportDate}).
ExportFile(okT, okC, okA) ==
    [transactions |-> IF okT THEN Coll("rows", TransactionObjects(transactions))
                      ELSE Coll("null", {}),
     categories   |-> IF okC THEN Coll("rows", CategoryObjects(categories))
                      ELSE Coll("null", {}),
     accounts     |-> IF okA THEN Coll("rows", AccountObjects(accounts))
                      ELSE Coll("null", {})]

\* An export that empties the transactions it has read.
exportData_clearing(okT, okC, okA) ==
    /\ StartOp
    /\ ui' = [op |-> "export", ok |-> TRUE, file |-> ExportFile(okT, okC, okA),
              pre |-> Snap, msg |-> "success"]
    /\ PageStep
    /\ transactions' = Without(transactions, Mine(transactions))
    /\ UNCHANGED <<accounts, categories, nextId, view, pr, initial>>

exportData(okT, okC, okA) ==
    /\ StartOp
    /\ ui' = [op |-> "export", ok |-> TRUE, file |-> ExportFile(okT, okC, okA),
              pre |-> Snap, msg |-> "success"]
    /\ PageStep
    /\ UNCHANGED <<accounts, categories, transactions, nextId, view, pr, initial>>

\* The largest transaction id among the stored rows, for the id generator.
MaxId(tx) == IF DOMAIN tx = {} THEN 0
             ELSE CHOOSE i \in DOMAIN tx : \A j \in DOMAIN tx : j <= i

Tables == {"transactions", "categories", "accounts"}

\* The answers to three requests in flight together: all without error, or
\* one of them with an error.
Answers == {Tables} \cup {Tables \ {t} : t \in Tables}

\* Settings.importData (lines 91-166), run by the file input's onChange.
\*   101-103  a file without the three collections throws before any request;
\*   106-107  query('BEGIN'): an error throws before any request;
\*   111-124  Promise.all of three deletes of the user's rows; the answers'
\*            errors are not read.  del: the deletes that answer without a
\*            transport error; delTxFirst: the transactions delete is applied
\*            before the other two (they are in flight together).  A delete of
\*            categories or accounts is refused while a transaction refers to
\*            one of the rows;
\*   127-146  Promise.all of three inserts of the file's rows, re-stamped with
\*            user.id; errors not read.  ins, insTxLast: as above;
\*   149-152  query('COMMIT'), then the success notification;
\*   153-160  catch: query('ROLLBACK'), rethrow, the error notification.
importData(file, begin, del, delTxFirst, ins, insTxLast, commit) ==
    /\ StartOp
    /\ LET run == ValidStructure(file) /\ begin
           txDel == "transactions" \in del
           tx1 == IF txDel THEN Without(transactions, Mine(transactions))
                  ELSE transactions
           txMet == IF delTxFirst THEN tx1 ELSE transactions
           catDel == /\ "categories" \in del
                     /\ Unreferenced(txMet, "category_id", Mine(categories))
           cat1 == IF catDel THEN Without(categories, Mine(categories)) ELSE categories
           accDel == /\ "accounts" \in del
                     /\ Unreferenced(txMet, "account_id", Mine(accounts))
           acc1 == IF accDel THEN Without(accounts, Mine(accounts)) ELSE accounts
           catRows == Stamp(file.categories.rows)
           accRows == Stamp(file.accounts.rows)
           txRows == Stamp(file.transactions.rows)
           catIns == "categories" \in ins /\ KeysFree(catRows, cat1)
           cat2 == IF catIns THEN CategoryTable(catRows) @@ cat1 ELSE cat1
           accIns == "accounts" \in ins /\ KeysFree(accRows, acc1)
           acc2 == IF accIns THEN AccountTable(accRows) @@ acc1 ELSE acc1
           txIns == /\ "transactions" \in ins
                    /\ KeysFree(txRows, tx1)
                    /\ BatchAccepted(txRows, IF insTxLast THEN cat2 ELSE cat1,
                                             IF insTxLast THEN acc2 ELSE acc1)
           tx2 == IF txIns THEN TransactionTable(txRows) @@ tx1 ELSE tx1
       IN  /\ transactions' = IF run THEN tx2 ELSE transactions
           /\ categories' = IF run THEN cat2 ELSE categories
           /\ accounts' = IF run THEN acc2 ELSE accounts
           /\ nextId' = IF run /\ MaxId(tx2) >= nextId THEN MaxId(tx2) + 1 ELSE nextId
           /\ ui' = [op |-> "import", file |-> file, pre |-> Snap,
                     stage |-> IF ~ValidStructure(file) THEN "invalid"
                               ELSE IF ~begin THEN "begin" ELSE "run",
                     ok |-> run /\ commit,
                     msg |-> IF run /\ commit THEN "success" ELSE "error",
                     failed |-> run /\ ~(txDel /\ catDel /\ accDel /\ catIns /\ accIns /\ txIns),
                     confirmed |-> FALSE, wrote |-> run,
                     clean |-> del = Tables /\ ins = Tables,
                     mid |-> [tx |-> tx1, cat |-> cat1, acc |-> acc1],
                     deleted |-> {t \in Tables :
                                    \/ t = "transactions" /\ txDel
                                    \/ t = "categories" /\ catDel
                                    \/ t = "accounts" /\ accDel},
                     inserted |-> {t \in Tables :
                                    \/ t = "transactions" /\ txIns
                                    \/ t = "categories" /\ catIns
                                    \/ t = "accounts" /\ accIns},
                     exported |-> ui.op = "export" /\ ui.file = file]
    /\ PageStep
    /\ UNCHANGED <<view, pr, initial>>

\* Backup files the user may pick: one account and nothing else (scenario 4),
\* the same without the key `categories` (scenario 5), and three empty arrays.
FileOneAccount ==
    [transactions |-> Coll("rows", {}), categories |-> Coll("rows", {}),
     accounts |-> Coll("rows", {[id |-> "a3", user_id |-> "u2", balance |-> 500]})]
FileNoCategories == [FileOneAccount EXCEPT !.categories = Coll("missing", {})]
FileEmpty == [FileOneAccount EXCEPT !.accounts = Coll("rows", {})]
ImportFiles == {FileOneAccount, FileNoCategories, FileEmpty}

\* The Settings page: export, and import of a picked file or of the file the
\* export just wrote.
SettingsWith(files) ==
    \/ \E okT, okC, okA \in BOOLEAN : exportData(okT, okC, okA)
    \/ \E file \in files \cup (IF ui.op = "export" THEN {ui.file} ELSE {}),
          begin, delTxFirst, insTxLast, commit \in BOOLEAN,
          del, ins \in Answers :
            \* no request follows a rejected file or a failed BEGIN
            /\ ~(ValidStructure(file) /\ begin) =>
                    /\ delTxFirst /\ insTxLast /\ commit
                    /\ del = Tables /\ ins = Tables
            /\ importData(file, begin, del, delTxFirst, ins, insTxLast, commit)

Settings == SettingsWith(ImportFiles)

\* One session on the Accounts and Settings pages, from the ledger of
\* scenario 3.
NextSettings == Settings \/ Deletes

SpecSettings == InitScenario3 /\ [][NextSettings]_vars

\* Every handler that deletes rows: those of the Accounts and Settings pages
\* and the Transactions page's delete of one row of its list.  BEGIN and
\* COMMIT, which change no row, answer without error here.
NextDeleting ==
    \/ Deletes
    \/ \E okT, okC, okA \in BOOLEAN : exportData(okT, okC, okA)
    \/ \E file \in ImportFiles \cup (IF ui.op = "export" THEN {ui.file} ELSE {}),
          delTxFirst, insTxLast \in BOOLEAN, del, ins \in Answers :
            /\ ~ValidStructure(file) =>
                    /\ delTxFirst /\ insTxLast
                    /\ del = Tables /\ ins = Tables
            /\ importData(file, TRUE, del, delTxFirst, ins, insTxLast, TRUE)
    \/ \E id \in DOMAIN view, ok \in BOOLEAN : Transactions_handleDelete(id, ok)

SpecDeleting == InitScenario3 /\ [][NextDeleting]_vars

\* ------------------------------------------- src/components/Dashboard.tsx
\* Dashboard.fetchDashboardData (lines 69-155): a select of the user's accounts
\* and a select of the user's transactions.  The two selects are taken here at
\* one instant, which is the most a reader can hope for.
fetchDashboardData ==
    /\ ui' = [op |-> "dashboard",
              acc |-> Fetched(accounts), tx |-> Fetched(transactions)]
    /\ UNCHANGED <<accounts, categories, transactions, nextId, view, pr, started,
                   initial, quiet, nops, dirty, optout, form>>

\* One caller of the library functions, and the dashboard reading beside it.
NextReader == Library({"p1"}) \/ fetchTransactions \/ fetchDashboardData

SpecReader == Init /\ [][NextReader]_vars

\* ------------------------------------------------ a second user's rows
\* Another user of the same store, with an account, a category and a
\* transaction of their own.
OtherUser == "u2"
ForeignAccounts == "b1" :> [user_id |-> OtherUser, balance |-> 700]
ForeignCategories == "c3" :> [user_id |-> OtherUser, type |-> "income"]
ForeignRow == [Row(1, "income", 50, "c3", "b1") EXCEPT !.user_id = OtherUser]

InitOwners ==
    /\ accounts = ForeignAccounts @@
                  [a \in AccountIds |->
                     [user_id |-> CurrentUser,
                      balance |-> IF a = "a1" THEN 1000 ELSE 500]]
    /\ categories = ("c1" :> [user_id |-> CurrentUser, type |-> "expense"]) @@
                    ("c2" :> [user_id |-> CurrentUser, type |-> "income"]) @@
                    ForeignCategories
    /\ transactions = (1 :> ForeignRow)
    /\ nextId = 2
    /\ view = Fetched(transactions)
    /\ form = NoForm
    /\ pr = [p \in Procs |-> IdlePr]
    /\ started = 0
    /\ initial = [a \in DOMAIN accounts |->
                    accounts[a].balance - SumEffects(transactions, RefsAccount(transactions, a))]
    /\ quiet = NoSnap
    /\ nops = 0
    /\ dirty = FALSE
    /\ ui = NoUi
    /\ optout = FALSE

\* The signed-in user calls the library functions with the other user's
\* account id, and with the other user's transaction, beside the usual calls.
NextOwners ==
    \/ Library({"p1"})
    \/ \E d \in CreateInputs, upd \in BOOLEAN, ok \in BOOLEAN :
            createTransaction_Begin("p1", d.type, d.amount, "b1", upd, ok)
    \/ \E ok \in BOOLEAN : deleteTransaction_Call("p1", ForeignRow, ok)
    \/ fetchTransactions
    \/ fetchDashboardData

SpecOwners == InitOwners /\ [][NextOwners]_vars

\* The other user's backup file: their account, category and transaction.
FileForeign ==
    [transactions |-> Coll("rows", {ForeignRow}),
     categories   |-> Coll("rows", {[id |-> "c3", user_id |-> OtherUser, type |-> "income"]}),
     accounts     |-> Coll("rows", {[id |-> "b1", user_id |-> OtherUser, balance |-> 700]})]

\* The signed-in user on the Settings page while the other user's rows are in
\* the store: export, and import of a file written for the other user.
NextImportOwners == SettingsWith({FileOneAccount, FileForeign})

SpecImportOwners == InitOwners /\ [][NextImportOwners]_vars

\* ------------------------------------ createTransaction, then deleteTransaction
\* A caller whose createTransaction resolved goes straight on to
\* deleteTransaction (lines 254-263: query('BEGIN')) with the id the store gave
\* the row and the row's account_id, amount and type.  The op records whether
\* the create was made with updateBalance.
deleteTransaction_AfterCreate(p, ok) ==
    /\ pr[p].pc = "done" /\ pr[p].op = "create" /\ pr[p].ok
    /\ StartOp
    /\ pr' = [pr EXCEPT ![p] =
                [pc |-> IF ok THEN "delete" ELSE "done",
                 op |-> IF pr[p].upd THEN "deleteCreated" ELSE "deleteCreatedNoBalance",
                 tx |-> pr[p].tx, upd |-> TRUE, cur |-> 0, ok |-> FALSE]]
    /\ InPeriod
    /\ UNCHANGED <<accounts, categories, transactions, nextId, view, initial>>

NextRoundTrip ==
    \/ Library({"p1"})
    \/ \E ok \in BOOLEAN : deleteTransaction_AfterCreate("p1", ok)
    \/ fetchTransactions

SpecRoundTrip == Init /\ [][NextRoundTrip]_vars

\* ------------------------- src/components/Navbar.tsx (AccountForm, editing)
\* The edit button of an account card (lines 713-721): setSelectedAccount,
\* setShowAccountForm(true).  AccountForm mounts with the account as the page
\* holds it, and its `balance` state starts as account.balance.toString()
\* (line 771).  The page's list is taken as fresh at this moment.
Accounts_edit(a) ==
    /\ a \in Mine(accounts)
    /\ ~form.open
    /\ form' = [open |-> TRUE, id |-> a, balance |-> accounts[a].balance]
    /\ ui' = NoUi
    /\ UNCHANGED <<accounts, categories, transactions, nextId, view, pr, started,
                   initial, quiet, nops, dirty, optout>>

\* Math.round(Number(balance)) of line 798.  The balance input holds whole
\* numbers (type number with the default step), which Math.round returns as
\* they are.
MathRound(n) == n

\* AccountForm.handleSubmit with an `account` prop (lines 786-825):
\* .from('accounts').update(accountData).eq('id', account.id), where accountData
\* carries balance: Math.round(Number(balance)) beside name, type, goal and
\* description.  field is the content of the balance input at the submit: what
\* the form opened with, or what the user typed.  Success closes the form; an
\* error sets the form's error message and leaves it open.
AccountForm_handleSubmit(field, ok) ==
    /\ form.open
    /\ StartOp
    /\ accounts' = IF ok /\ form.id \in Mine(accounts)
                   THEN [accounts EXCEPT ![form.id].balance = MathRound(field)]
                   ELSE accounts
    /\ form' = IF ok THEN NoForm ELSE form
    /\ ui' = [op |-> "accountEdit", ok |-> ok, id |-> form.id, pre |-> Snap,
              opened |-> form.balance, field |-> field,
              msg |-> IF ok THEN "none" ELSE "error"]
    /\ UNCHANGED <<quiet, nops, optout>>
    /\ dirty' = (dirty \/ Busy)
    /\ UNCHANGED <<categories, transactions, nextId, view, pr, initial>>

\* A balance the user may type into the form.
TypedBalance == 300

\* The Accounts page with its edit form, beside one caller of the library
\* functions.
NextAccountEdit ==
    \/ Library({"p1"})
    \/ \E a \in AccountIds : Accounts_edit(a)
    \/ \E field \in {form.balance, TypedBalance}, ok \in BOOLEAN :
            AccountForm_handleSubmit(field, ok)
    \/ fetchTransactions

SpecAccountEdit == Init /\ [][NextAccountEdit]_vars

\* ------------------------------------------------- inputs no check stops
\* Amounts the number input (lines 483-490: required, no min) and the
\* parameter `transaction` of createTransaction admit: zero and negative ones.
InvalidInputs == {[type |-> "expense", amount |-> -5], [type |-> "income", amount |-> 0]}

\* The category the form still holds after its type was switched (line 471
\* sets type only): a category of the other type.
OtherCategoryOf(t) == IF t = "expense" THEN "c2" ELSE "c1"

\* Creates with such inputs, through the library function and through the
\* form, beside the usual calls.
NextValidation ==
    \/ Library({"p1"})
    \/ \E d \in InvalidInputs, a \in CreateAccounts, upd \in BOOLEAN, ok \in BOOLEAN :
            createTransaction_Begin("p1", d.type, d.amount, a, upd, ok)
    \/ \E d \in InvalidInputs \cup CreateInputs, c \in CategoryIds \cup {NoCategory},
          ok \in BOOLEAN :
            /\ d \in CreateInputs => c = OtherCategoryOf(d.type)
            /\ TransactionForm_handleSubmit_create(d.type, d.amount, c, ok)
    \/ fetchTransactions

SpecValidation == Init /\ [][NextValidation]_vars

\* ----------------------------------------------------------------- claims
\* A library invocation of p has settled, and it is the only operation that
\* ran since the tables were last recorded in quiet.
SettledAlone(p) == pr[p].pc = "done" /\ nops = 1 /\ ~dirty

Consistent(a) ==
    accounts[a].balance =
        initial[a] + SumEffects(transactions, RefsAccount(transactions, a))

\* C1: whenever no operation is in flight, every account's stored balance is
\* its initial balance plus the effects of the transactions that reference it
\* (stated for the runs in which no caller asked createTransaction to leave
\* the balance alone).
C1_BalanceInvariant ==
    (AllIdle /\ ~optout) => \A a \in DOMAIN accounts : Consistent(a)

\* C2: two concurrent creates on one account that both succeed leave the
\* balance at its starting value plus both effects, whatever the interleaving.
C2_NoLostUpdate ==
    \A p, q \in Procs :
        ( /\ p # q
          /\ nops = 2 /\ ~dirty
          /\ pr[p].pc = "done" /\ pr[p].ok /\ pr[p].op = "create" /\ pr[p].upd
          /\ pr[q].pc = "done" /\ pr[q].ok /\ pr[q].op = "create" /\ pr[q].upd
          /\ pr[p].tx.account_id \in DOMAIN accounts
          /\ pr[q].tx.account_id = pr[p].tx.account_id )
        => accounts[pr[p].tx.account_id].balance =
              quiet.acc[pr[p].tx.account_id].balance
                + Effect(pr[p].tx) + Effect(pr[q].tx)

\* C3: a create that failed left neither a row nor a balance change; a create
\* that succeeded left its row, and its effect on the account's balance.
C3_CreateAllOrNothing ==
    \A p \in Procs :
        (SettledAlone(p) /\ pr[p].op = "create") =>
            IF pr[p].ok
            THEN /\ pr[p].tx.id \in DOMAIN transactions
                 /\ (pr[p].upd /\ pr[p].tx.account_id \in DOMAIN accounts) =>
                        accounts[pr[p].tx.account_id].balance =
                            quiet.acc[pr[p].tx.account_id].balance + Effect(pr[p].tx)
            ELSE transactions = quiet.tx /\ accounts = quiet.acc

\* The row a successful form create stored.
FormCreated == ui.op = "formCreate" /\ ui.ok

ConsistentIn(snap) ==
    \A a \in DOMAIN snap.acc :
        snap.acc[a].balance = initial[a] + SumEffects(snap.tx, RefsAccount(snap.tx, a))

\* A page handler ran while no library call was in flight, on tables whose
\* balances were consistent.
PageRanAlone(op) == ui.op = op /\ AllIdle /\ ConsistentIn(ui.pre)

\* C5: after a successful update of a transaction, its account's balance is
\* the balance before minus the old effect plus the new effect.
C5_UpdateNetEffect ==
    ( /\ PageRanAlone("formUpdate") /\ ui.ok
      /\ ui.id \in DOMAIN ui.pre.tx
      /\ ui.pre.tx[ui.id].account_id \in DOMAIN accounts )
    => accounts[ui.pre.tx[ui.id].account_id].balance =
          ui.pre.acc[ui.pre.tx[ui.id].account_id].balance
            - Effect(ui.pre.tx[ui.id]) + Effect(transactions[ui.id])

\* C6: a successful delete of a stored transaction, through the page or
\* through the library function, removes the row and takes the stored row's
\* effect off its account's balance; a failed delete through the page leaves
\* the row and the balance.
C6_DeleteInverseEffect ==
    /\ (PageRanAlone("pageDelete") /\ ui.id \in DOMAIN ui.pre.tx) =>
          IF ui.ok
          THEN /\ ui.id \notin DOMAIN transactions
               /\ ui.pre.tx[ui.id].account_id \in DOMAIN accounts =>
                    accounts[ui.pre.tx[ui.id].account_id].balance =
                        ui.pre.acc[ui.pre.tx[ui.id].account_id].balance
                          - Effect(ui.pre.tx[ui.id])
          ELSE transactions = ui.pre.tx /\ accounts = ui.pre.acc
    /\ \A p \in Procs :
          ( /\ SettledAlone(p) /\ pr[p].op = "delete" /\ pr[p].ok
            /\ ConsistentIn(quiet)
            /\ pr[p].tx.id \in DOMAIN quiet.tx ) =>
              /\ pr[p].tx.id \notin DOMAIN transactions
              /\ quiet.tx[pr[p].tx.id].account_id \in DOMAIN accounts =>
                    accounts[quiet.tx[pr[p].tx.id].account_id].balance =
                        quiet.acc[quiet.tx[pr[p].tx.id].account_id].balance
                          - Effect(quiet.tx[pr[p].tx.id])

\* C7: deleteTransaction called with the id of a transaction that is already
\* deleted (and with the account, amount and type it had) reports an error and
\* leaves every balance as it was.
C7_IdempotentDelete ==
    \A p \in Procs :
        ( /\ SettledAlone(p) /\ pr[p].op = "delete" /\ ConsistentIn(quiet)
          /\ pr[p].tx.id \notin DOMAIN quiet.tx
          /\ pr[p].tx.account_id \in DOMAIN accounts )
        => ~pr[p].ok /\ accounts = quiet.acc

\* The rows a category delete is to remove: the user's rows of the category.
CategoryRows(tx, c) == {i \in RefsCategory(tx, c) : tx[i].user_id = CurrentUser}

\* C8: a successful category delete removes the category and its transactions
\* and takes, for every account, the sum of the removed rows' effects off the
\* balance (nothing, for an account none of them references).
C8_CategoryDeleteAdjusts ==
    (PageRanAlone("categoryDelete") /\ ui.ok) =>
        /\ ui.id \notin DOMAIN categories
        /\ CategoryRows(ui.pre.tx, ui.id) \cap DOMAIN transactions = {}
        /\ \A a \in DOMAIN accounts :
              accounts[a].balance =
                  ui.pre.acc[a].balance
                    - SumEffects(ui.pre.tx,
                                 CategoryRows(ui.pre.tx, ui.id) \cap RefsAccount(ui.pre.tx, a))

\* C9: scenario 3: the category of three expenses of 100, 200 and 300 on an
\* account at 1000 is deleted; the account is at 400 and the category and the
\* three transactions are gone.
C9_Scenario3 ==
    ( /\ PageRanAlone("categoryDelete") /\ ui.ok /\ ui.id = "c1"
      /\ ui.pre.tx = Scenario3Transactions
      /\ ui.pre.acc["a1"].balance = 1000 )
    => /\ accounts["a1"].balance = 400
       /\ "c1" \notin DOMAIN categories
       /\ DOMAIN transactions \cap {1, 2, 3} = {}

\* C10: after a category delete returns, the category and all its
\* transactions are gone, or all of them are still there.
C10_CategoryDeleteAtomic ==
    PageRanAlone("categoryDelete") =>
        \/ /\ ui.id \notin DOMAIN categories
           /\ CategoryRows(ui.pre.tx, ui.id) \cap DOMAIN transactions = {}
        \/ /\ ui.id \in DOMAIN categories
           /\ CategoryRows(ui.pre.tx, ui.id) \subseteq DOMAIN transactions

\* The rows an account delete is to remove: the user's rows on the account.
AccountRows(tx, a) == {i \in RefsAccount(tx, a) : tx[i].user_id = CurrentUser}

\* C11: after an account delete returns (from the accounts list or from the
\* account form), the account and all its transactions are gone, or all of
\* them are still there.
C11_AccountDeleteAtomic ==
    (ui.op \in {"accountDelete", "accountFormDelete"} /\ AllIdle) =>
        \/ /\ ui.id \notin DOMAIN accounts
           /\ AccountRows(ui.pre.tx, ui.id) \cap DOMAIN transactions = {}
        \/ /\ ui.id \in DOMAIN accounts
           /\ AccountRows(ui.pre.tx, ui.id) \subseteq DOMAIN transactions

\* The tables are as the last handler found them.
Untouched ==
    transactions = ui.pre.tx /\ categories = ui.pre.cat /\ accounts = ui.pre.acc

\* C12: an import of a file in which one of the three collections is missing
\* ends with the error notification before any request is made and leaves the
\* tables as they were; a file with the three collections present, empty or
\* not, passes this test.
C12_ImportMalformed ==
    ui.op = "import" =>
        /\ (\E t \in Tables : ui.file[t].kind = "missing") =>
              /\ ui.stage = "invalid" /\ ~ui.wrote /\ ui.msg = "error"
              /\ Untouched
        /\ (\A t \in Tables : ui.file[t].kind = "rows") => ui.stage # "invalid"

\* Scenario 5: a file without `categories` was imported over a ledger that has
\* accounts, categories and transactions, and was rejected.
C12_Witness ==
    /\ ui.op = "import" /\ ui.file = FileNoCategories
    /\ ui.stage = "invalid" /\ ui.msg = "error"
    /\ ui.pre.tx # <<>> /\ ui.pre.cat # <<>> /\ ui.pre.acc # <<>>

\* C13: an import in which a delete or an insert failed ends with the error
\* notification and with the tables as they were before the import.
C13_ImportAtomic ==
    (ui.op = "import" /\ ui.failed /\ AllIdle) => (ui.msg = "error" /\ Untouched)

\* C14: after an import that ended with the success notification, the user's
\* accounts, categories and transactions are exactly the rows of the file
\* (stated for the imports whose requests all reached the store and were
\* answered by it).
C14_ImportExact ==
    (ui.op = "import" /\ ui.ok /\ ui.clean /\ AllIdle) =>
        /\ TransactionObjects(transactions) = Stamp(ui.file.transactions.rows)
        /\ CategoryObjects(categories) = Stamp(ui.file.categories.rows)
        /\ AccountObjects(accounts) = Stamp(ui.file.accounts.rows)

\* C15: an import of the file an export has just written succeeds and leaves
\* the user's accounts (with their balances), categories and transactions as
\* they were before the export.  (The file carries the rows' ids and the
\* import stores them, so equal rows have equal ids.)  Stated for an export
\* whose three selects answered, and an import whose BEGIN, COMMIT and row
\* requests all reached the store and were answered by it.
C15_ExportImportRoundTrip ==
    ( /\ ui.op = "import" /\ ui.exported /\ AllIdle
      /\ ValidStructure(ui.file) /\ ui.clean /\ ui.ok ) => Untouched

\* The handlers the spec calls destructive.
Destructive == {"categoryDelete", "accountDelete", "accountFormDelete", "import"}

\* C19: a category delete, an account delete or an import makes its first
\* store request only after the user confirmed that operation.
C19_ConfirmationGating ==
    (ui.op \in Destructive /\ ui.wrote) => ui.confirmed

\* A write request of the handler that ran last was answered with an error.
WriteFailed ==
    CASE ui.op = "import" -> ui.failed
      [] ui.op \in Destructive \ {"import"} -> ui.wrote /\ ~ui.ok
      [] ui.op \in {"formCreate", "formUpdate", "pageDelete"} -> ~ui.ok
      [] OTHER -> FALSE

\* C20: a handler one of whose write requests failed ends with its error
\* message shown, and a library call one of whose requests failed settles as
\* failed.
C20_FailuresReported ==
    /\ WriteFailed => ui.msg = "error"
    /\ \A p \in Procs : pr[p].pc = "rollback" => ~pr[p].ok

\* C16: what the dashboard reads while a create or a delete is in flight (none
\* of whose requests has failed, and which is the only operation since the
\* balances were last consistent) is consistent: every balance it sees is the
\* initial balance plus the effects of the rows it sees.
C16_AtomicVisibility ==
    ( /\ ui.op = "dashboard"
      /\ nops = 1 /\ ~dirty /\ ~optout /\ ConsistentIn(quiet)
      /\ \A p \in Procs : pr[p].pc \notin {"rollback", "done"} )
    => \A a \in DOMAIN ui.acc :
          ui.acc[a].balance = initial[a] + SumEffects(ui.tx, RefsAccount(ui.tx, a))

\* The rows of a table that belong to somebody else.
Theirs(table) == [i \in DOMAIN table \ Mine(table) |-> table[i]]

\* C17: the other user's rows are never changed and never shown to the
\* signed-in user, and a create on an account of the other user fails and
\* leaves every balance as it was.
C17_OwnerScoping ==
    /\ Theirs(accounts) = ForeignAccounts
    /\ Theirs(categories) = ForeignCategories
    /\ Theirs(transactions) = (1 :> ForeignRow)
    /\ Theirs(view) = <<>>
    /\ ui.op = "dashboard" => (Theirs(ui.acc) = <<>> /\ Theirs(ui.tx) = <<>>)
    /\ \A p \in Procs :
          ( /\ SettledAlone(p) /\ pr[p].op = "create"
            /\ pr[p].tx.account_id \in DOMAIN accounts \ Mine(accounts) )
          => ~pr[p].ok /\ accounts = quiet.acc

\* What the spec's validation of a create rejects: an amount that is not
\* positive, a missing category or account, a category of the other kind.
Invalid(row) ==
    \/ row.amount <= 0
    \/ row.category_id \notin DOMAIN categories
    \/ row.account_id = NoAccount
    \/ categories[row.category_id].type # row.type

\* C18: a create with an invalid transaction fails and leaves the transactions
\* and the balances as they were: a library call with one settles as failed
\* with the tables untouched, and no successful form submit stores one.
C18_CreateValidation ==
    /\ \A p \in Procs :
          (SettledAlone(p) /\ pr[p].op = "create" /\ Invalid(pr[p].tx)) =>
              ~pr[p].ok /\ transactions = quiet.tx /\ accounts = quiet.acc
    /\ (FormCreated /\ AllIdle /\ ui.id \in DOMAIN transactions) =>
              ~Invalid(transactions[ui.id])

\* The place of a step in the body of createTransaction / deleteTransaction.
PcRank(pc) ==
    CASE pc = "idle" -> 0
      [] pc \in {"insert", "delete"} -> 1
      [] pc = "read" -> 2
      [] pc = "write" -> 3
      [] pc = "commit" -> 4
      [] pc = "rollback" -> 5
      [] pc = "done" -> 6

\* C21: an invocation of createTransaction or deleteTransaction only moves
\* forward through its body until it settles, so its row request and its
\* balance write are each made at most once, a failure is never followed by a
\* second attempt, and the balance changes only in the one step that writes
\* currentBalance + balanceChange.
C21_NoRetry ==
    [][\A p \in Procs :
          /\ pr'[p].pc # pr[p].pc =>
                \/ PcRank(pr'[p].pc) > PcRank(pr[p].pc)
                \/ pr[p].pc = "done" /\ pr'[p].pc = "idle"
          /\ (pr[p].pc # "idle" /\ transactions' # transactions) =>
                pr[p].pc \in {"insert", "delete"} /\ pr'[p].pc \in {"read", "commit"}
          /\ (pr[p].pc # "idle" /\ accounts' # accounts) =>
                /\ pr[p].pc = "write" /\ pr'[p].pc = "commit"
                /\ accounts' = [accounts EXCEPT ![pr[p].tx.account_id].balance = NewBalance(p)]
      ]_vars

\* A create failed after its row was stored, and has settled as failed.
C21_Witness ==
    \E p \in Procs :
        /\ pr[p].pc = "done" /\ ~pr[p].ok /\ pr[p].op = "create"
        /\ pr[p].tx.id \in DOMAIN transactions
        /\ nops = 1 /\ ~dirty

\* The stored rows with the ids of a file's collection.
StoredOf(coll, table) == {table[i] : i \in Ids(coll.rows) \cap DOMAIN table}

\* C22: after an import that showed success, the rows of every collection
\* whose insert was applied are stored with the signed-in user's id, whatever
\* user_id the file's rows carried, and the rows of other users are what they
\* were before the import.
C22_ImportOwner ==
    (ui.op = "import" /\ ui.ok) =>
        /\ "accounts" \in ui.inserted =>
                \A r \in StoredOf(ui.file.accounts, accounts) : r.user_id = CurrentUser
        /\ "categories" \in ui.inserted =>
                \A r \in StoredOf(ui.file.categories, categories) : r.user_id = CurrentUser
        /\ "transactions" \in ui.inserted =>
                \A r \in StoredOf(ui.file.transactions, transactions) : r.user_id = CurrentUser
        /\ Theirs(accounts) = Theirs(ui.pre.acc)
        /\ Theirs(categories) = Theirs(ui.pre.cat)
        /\ Theirs(transactions) = Theirs(ui.pre.tx)

\* A file whose account row names the other user was imported and stored, the
\* user's own rows were deleted, and the other user has rows in the store.
C22_Witness ==
    /\ ui.op = "import" /\ ui.ok
    /\ "accounts" \in ui.inserted /\ ui.deleted = Tables
    /\ \E r \in ui.file.accounts.rows : r.user_id = OtherUser
    /\ Theirs(accounts) # <<>> /\ Theirs(transactions) # <<>>

\* C23: an export, whether all three selects answered or some failed, leaves
\* every stored account, category and transaction row as it was.
C23_ExportReadOnly ==
    ui.op = "export" => Untouched

\* An export ran on a ledger with rows, and one of its selects failed.
C23_Witness ==
    /\ ui.op = "export"
    /\ ui.pre.tx # <<>> /\ ui.pre.acc # <<>>
    /\ ~Truthy(ui.file.transactions) /\ Truthy(ui.file.accounts)

\* C24: every stored transaction has an amount that is not negative.
C24_AmountsNonNegative ==
    \A i \in DOMAIN transactions : transactions[i].amount >= 0

\* C25: every stored transaction has the type of the category it refers to.
C25_KindMatchesCategory ==
    \A i \in DOMAIN transactions :
        transactions[i].category_id \in DOMAIN categories =>
            transactions[i].type = categories[transactions[i].category_id].type

\* The invocation makes a balance write: updateBalance && transaction.account_id
\* in createTransaction, accountId in deleteTransaction.
WritesBalance(p) == pr[p].upd /\ pr[p].tx.account_id # NoAccount

C27_ReferentialIntegrity ==
    \A i \in DOMAIN transactions :
        /\ transactions[i].category_id \in DOMAIN categories
        /\ transactions[i].account_id = NoAccount
                \/ transactions[i].account_id \in DOMAIN accounts

\* An import deleted and inserted all three tables, and left transactions that
\* refer to categories and accounts.
C27_Witness ==
    /\ ui.op = "import" /\ ui.deleted = Tables /\ ui.inserted = Tables
    /\ \E i \in DOMAIN transactions : transactions[i].account_id # NoAccount
    /\ ui.pre.tx # <<>>

\* C28: when the account form is saved with its balance field as it was when
\* the form opened, and no library call is in flight, the stored balance after
\* the save is the stored balance before the save: no balance change made by a
\* transaction since the form opened is lost.
C28_EditKeepsBalance ==
    (ui.op = "accountEdit" /\ ui.ok /\ ui.field = ui.opened /\ AllIdle) =>
        accounts[ui.id].balance = ui.pre.acc[ui.id].balance

C30_CreateDeleteRoundTrip ==
    \A p \in Procs :
        (/\ pr[p].pc = "done" /\ pr[p].ok /\ pr[p].op = "deleteCreated"
         /\ pr[p].tx.account_id # NoAccount
         /\ nops = 1 /\ ~dirty) =>
            /\ accounts = quiet.acc
            /\ transactions = quiet.tx

\* Such a pair of calls resolved on a ledger that already held a transaction.
C30_Witness ==
    \E p \in Procs :
        /\ pr[p].pc = "done" /\ pr[p].ok /\ pr[p].op = "deleteCreated"
        /\ pr[p].tx.account_id = "a1"
        /\ nops = 1 /\ ~dirty
        /\ quiet.tx # <<>>
        /\ pr[p].tx.id \notin DOMAIN transactions

====
